---- MODULE Spec2Model ----
(***************************************************************************)
(* The message relay of the debugger proxy (attachToServer): a registry of *)
(* WebSocket connections keyed by "client#n", and the per-message handler  *)
(* that parses, classifies and routes every inbound frame.                 *)
(*                                                                         *)
(* Each handler of the source runs to completion, so each is one action.   *)
(* ev, pre, sent, logs, caught and uncaught record the last handler run:   *)
(* the event, the registry before it, the ws.send calls it made (in order, *)
(* with whether the call threw), the logger calls, and the exception it    *)
(* caught or let escape.                                                   *)
(***************************************************************************)
EXTENDS Integers, Sequences, FiniteSets, TLC

VARIABLES
  clients,       \* the Map `clients`, in insertion order: <<[id, ws, url], ...>>
  nextClientId,  \* the counter `nextClientId`
  onmessage,     \* the sockets whose onmessage handler is installed
  accepted,      \* history: accepted[ws] is socket ws as accepted, [id, url]
  closed,        \* history: <<ws, kind>>, the event that closed socket ws first
  ev,            \* the event handled last
  pre,           \* the registry state that event found
  sent,          \* the ws.send calls of the last handler run
  logs,          \* the logger calls of the last handler run
  caught,        \* the stringified exception the handler's try/catch caught
  uncaught       \* the stringified exception that escaped the handler

vars == <<clients, nextClientId, onmessage, accepted, closed,
          ev, pre, sent, logs, caught, uncaught>>

(* Bound on the number of connections accepted in one run. *)
MaxClients == 3

PROTOCOL_VERSION == 2

(***************************************************************************)
(* JavaScript values.  A JSON object is Obj(f), f a function from property *)
(* names to values; a property that is absent reads as Undefined.          *)
(***************************************************************************)
Undefined == [t |-> "undefined"]
Null == [t |-> "null"]
Str(s) == [t |-> "string", v |-> s]
Num(n) == [t |-> "number", v |-> n]
Obj(f) == [t |-> "object", o |-> f]
EmptyFields == [k \in {} |-> Undefined]

typeof(v) == IF v.t = "null" THEN "object" ELSE v.t

(* v.p for a value that is neither null nor undefined. *)
Prop(v, p) ==
  IF v.t = "object" /\ p \in DOMAIN v.o THEN v.o[p] ELSE Undefined

(* JSON.stringify of an object literal: properties whose value is          *)
(* undefined are left out of the text.                                     *)
JSONstringify(v) ==
  [text |-> "json",
   value |-> Obj([p \in {q \in DOMAIN v.o : v.o[q] # Undefined} |-> v.o[p]])]

(* JSON.parse: the value of a JSON text; any other text is a SyntaxError.  *)
JSONparseThrows(data) == data.text # "json"
JSONparse(data) == data.value

NoError == ""
ErrorToString(name, message) == name \o ": " \o message

LogEntry(level, text) == [level |-> level, text |-> text]

(* parseMessage comparing the version with == : "2" passes as 2. *)
parseMessage_looseEquality(data, binary) ==
  IF binary
    THEN [message |-> Undefined,
          logs |-> <<LogEntry("error", "Expected text message, got binary!")>>]
  ELSE IF JSONparseThrows(data) \/ JSONparse(data).t \in {"null", "undefined"}
    THEN [message |-> Undefined,
          logs |-> <<LogEntry("error", "Failed to parse the message as JSON")>>]
  ELSE IF Prop(JSONparse(data), "version")
            \in {Num(PROTOCOL_VERSION), Str("2")}
    THEN [message |-> JSONparse(data), logs |-> <<>>]
  ELSE [message |-> Undefined,
        logs |-> <<LogEntry("error",
                     "Received message had wrong protocol version")>>]

(* parseMessage: the message, or undefined with the logged rejection.      *)
parseMessage(data, binary) ==
  IF binary
    THEN [message |-> Undefined,
          logs |-> <<LogEntry("error", "Expected text message, got binary!")>>]
  ELSE IF JSONparseThrows(data) \/ JSONparse(data).t \in {"null", "undefined"}
    THEN [message |-> Undefined,
          logs |-> <<LogEntry("error", "Failed to parse the message as JSON")>>]
  ELSE IF Prop(JSONparse(data), "version") = Num(PROTOCOL_VERSION)
    THEN [message |-> JSONparse(data), logs |-> <<>>]
  ELSE [message |-> Undefined,
        logs |-> <<LogEntry("error",
                     "Received message had wrong protocol version")>>]

isBroadcast(message) ==
  /\ typeof(Prop(message, "method")) = "string"
  /\ Prop(message, "id") = Undefined
  /\ Prop(message, "target") = Undefined

isRequest(message) ==
  /\ typeof(Prop(message, "method")) = "string"
  /\ typeof(Prop(message, "target")) = "string"

(* isResponse reads message.id.requestId once typeof message.id is         *)
(* 'object', which null satisfies: that read is a TypeError.               *)
isResponseThrows(message) == Prop(message, "id") = Null

isResponse(message) ==
  /\ typeof(Prop(message, "id")) = "object"
  /\ Prop(Prop(message, "id"), "requestId") # Undefined
  /\ typeof(Prop(Prop(message, "id"), "clientId")) = "string"
  /\ (Prop(message, "result") # Undefined \/ Prop(message, "error") # Undefined)

(***************************************************************************)
(* The registry: Map get, set and delete on the insertion-ordered entries. *)
(***************************************************************************)
MapHas(cl, id) == \E i \in 1..Len(cl) : cl[i].id = id
MapGet(cl, id) == cl[CHOOSE i \in 1..Len(cl) : cl[i].id = id]
MapSet(cl, id, ws, url) ==
  IF MapHas(cl, id)
    THEN [i \in 1..Len(cl) |->
            IF cl[i].id = id THEN [id |-> id, ws |-> ws, url |-> url] ELSE cl[i]]
    ELSE Append(cl, [id |-> id, ws |-> ws, url |-> url])
(* clients.delete removing the oldest entry instead of the entry of id. *)
MapDelete_oldest(cl, id) == IF MapHas(cl, id) THEN Tail(cl) ELSE cl
MapDelete(cl, id) == SelectSeq(cl, LAMBDA c : c.id # id)
MapKeys(cl) == {cl[i].id : i \in 1..Len(cl)}

(* ws.send(data) on socket `to`; it throws when the socket is in `fail`.   *)
Send(to, data, fail) == [to |-> to, data |-> data, ok |-> to \notin fail]
SendError == ErrorToString("Error", "not opened")

Result(s, l, e) == [sent |-> s, logs |-> l, error |-> e]

ClientIdOf(n) == "client#" \o ToString(n)

(* getClientWs: the socket registered under clientId, or the thrown error. *)
getClientWsThrows(cl, clientId) == ~MapHas(cl, clientId)
getClientWs(cl, clientId) == MapGet(cl, clientId).ws
NotFoundError(clientId) ==
  ErrorToString("Error",
                "could not find id \"" \o clientId \o "\" while forwarding request")

(* handleSendBroadcast without the otherId !== broadcasterId test. *)
handleSendBroadcast_toAll(broadcasterId, message, cl, fail) ==
  LET forwarded == Obj([version |-> Num(PROTOCOL_VERSION),
                        method |-> Prop(message, "method"),
                        params |-> Prop(message, "params")])
      failed == SelectSeq(cl, LAMBDA c : c.ws \in fail)
  IN  Result([i \in 1..Len(cl) |->
                Send(cl[i].ws, JSONstringify(forwarded), fail)],
             (IF Len(cl) = 0
                THEN <<LogEntry("warn", "No apps connected")>> ELSE <<>>)
             \o [i \in 1..Len(failed) |->
                   LogEntry("error", "Failed to send broadcast to client: '"
                                     \o failed[i].id \o "'")],
             NoError)

(* handleSendBroadcast sending only when there is a broadcaster:           *)
(* broadcasterId && otherId !== broadcasterId.                            *)
handleSendBroadcast_needsBroadcaster(broadcasterId, message, cl, fail) ==
  LET forwarded == Obj([version |-> Num(PROTOCOL_VERSION),
                        method |-> Prop(message, "method"),
                        params |-> Prop(message, "params")])
      others == SelectSeq(cl, LAMBDA c : /\ broadcasterId # Null
                                         /\ Str(c.id) # broadcasterId)
      failed == SelectSeq(others, LAMBDA c : c.ws \in fail)
  IN  Result([i \in 1..Len(others) |->
                Send(others[i].ws, JSONstringify(forwarded), fail)],
             (IF Len(cl) = 0
                THEN <<LogEntry("warn", "No apps connected")>> ELSE <<>>)
             \o [i \in 1..Len(failed) |->
                   LogEntry("error", "Failed to send broadcast to client: '"
                                     \o failed[i].id \o "'")],
             NoError)

(* handleSendBroadcast warning when there is at most one entry. *)
handleSendBroadcast_warnsBelowTwo(broadcasterId, message, cl, fail) ==
  LET forwarded == Obj([version |-> Num(PROTOCOL_VERSION),
                        method |-> Prop(message, "method"),
                        params |-> Prop(message, "params")])
      others == SelectSeq(cl, LAMBDA c : Str(c.id) # broadcasterId)
      failed == SelectSeq(others, LAMBDA c : c.ws \in fail)
  IN  Result([i \in 1..Len(others) |->
                Send(others[i].ws, JSONstringify(forwarded), fail)],
             (IF Len(cl) <= 1
                THEN <<LogEntry("warn", "No apps connected")>> ELSE <<>>)
             \o [i \in 1..Len(failed) |->
                   LogEntry("error", "Failed to send broadcast to client: '"
                                     \o failed[i].id \o "'")],
             NoError)

(* handleSendBroadcast without the try around send: the first send that    *)
(* throws ends the loop and the exception leaves the function.             *)
handleSendBroadcast_abortsOnFailure(broadcasterId, message, cl, fail) ==
  LET forwarded == Obj([version |-> Num(PROTOCOL_VERSION),
                        method |-> Prop(message, "method"),
                        params |-> Prop(message, "params")])
      others == SelectSeq(cl, LAMBDA c : Str(c.id) # broadcasterId)
      failing == {i \in 1..Len(others) : others[i].ws \in fail}
      last == IF failing = {} THEN Len(others)
              ELSE CHOOSE i \in failing : \A j \in failing : i <= j
  IN  Result([i \in 1..last |->
                Send(others[i].ws, JSONstringify(forwarded), fail)],
             IF Len(cl) = 0
               THEN <<LogEntry("warn", "No apps connected")>> ELSE <<>>,
             IF failing = {} THEN NoError ELSE SendError)

(* handleSendBroadcast: one copy to every entry but the broadcaster's; a   *)
(* send that throws is logged and the loop goes on.  It never throws.      *)
handleSendBroadcast(broadcasterId, message, cl, fail) ==
  LET forwarded == Obj([version |-> Num(PROTOCOL_VERSION),
                        method |-> Prop(message, "method"),
                        params |-> Prop(message, "params")])
      others == SelectSeq(cl, LAMBDA c : Str(c.id) # broadcasterId)
      failed == SelectSeq(others, LAMBDA c : c.ws \in fail)
  IN  Result([i \in 1..Len(others) |->
                Send(others[i].ws, JSONstringify(forwarded), fail)],
             (IF Len(cl) = 0
                THEN <<LogEntry("warn", "No apps connected")>> ELSE <<>>)
             \o [i \in 1..Len(failed) |->
                   LogEntry("error", "Failed to send broadcast to client: '"
                                     \o failed[i].id \o "'")],
             NoError)

(* url.parse(u, true).query of a URL given as its tokens: the pairs after  *)
(* the first "?", split at "&" and "=".                                    *)
RECURSIVE QueryPairs(_)
QueryPairs(toks) ==
  IF toks = <<>> THEN {}
  ELSE IF toks[1] = "&" THEN QueryPairs(Tail(toks))
  ELSE IF Len(toks) >= 3 /\ toks[2] = "="
    THEN {<<toks[1], toks[3]>>} \cup QueryPairs(SubSeq(toks, 4, Len(toks)))
  ELSE {<<toks[1], "">>} \cup QueryPairs(Tail(toks))

RECURSIVE AfterQuestionMark(_)
AfterQuestionMark(toks) ==
  IF toks = <<>> THEN <<>>
  ELSE IF toks[1] = "?" THEN Tail(toks)
  ELSE AfterQuestionMark(Tail(toks))

ParseQuery(u) ==
  LET pairs == QueryPairs(AfterQuestionMark(u))
  IN  Obj([k \in {p[1] : p \in pairs} |->
             Str((CHOOSE p \in pairs : p[1] = k)[2])])

(* handleServerRequest replying without the id of the request. *)
handleServerRequest_noId(message, clientId, clientWs, cl, fail) ==
  LET method == Prop(message, "method")
      peerIds == {cl[i].id : i \in {j \in 1..Len(cl) :
                                      cl[j].id # clientId /\ cl[j].url # <<>>}}
      result == IF method = Str("getid") THEN Str(clientId)
                ELSE Obj([id \in peerIds |-> ParseQuery(MapGet(cl, id).url)])
      reply == Send(clientWs,
                    JSONstringify(Obj([version |-> Num(PROTOCOL_VERSION),
                                       result |-> result])),
                    fail)
  IN  IF method \notin {Str("getid"), Str("getpeers")}
        THEN Result(<<>>, <<>>,
                    ErrorToString("Error", "unknown method: " \o method.v))
        ELSE Result(<<reply>>, <<>>, IF reply.ok THEN NoError ELSE SendError)

(* handleServerRequest listing the caller among its own peers. *)
handleServerRequest_ownEntry(message, clientId, clientWs, cl, fail) ==
  LET method == Prop(message, "method")
      peerIds == {cl[i].id : i \in {j \in 1..Len(cl) : cl[j].url # <<>>}}
      result == IF method = Str("getid") THEN Str(clientId)
                ELSE Obj([id \in peerIds |-> ParseQuery(MapGet(cl, id).url)])
      reply == Send(clientWs,
                    JSONstringify(Obj([version |-> Num(PROTOCOL_VERSION),
                                       result |-> result,
                                       id |-> Prop(message, "id")])),
                    fail)
  IN  IF method \notin {Str("getid"), Str("getpeers")}
        THEN Result(<<>>, <<>>,
                    ErrorToString("Error", "unknown method: " \o method.v))
        ELSE Result(<<reply>>, <<>>, IF reply.ok THEN NoError ELSE SendError)

(* handleServerRequest whose switch has no throwing default: result stays *)
(* null and is replied.                                                  *)
handleServerRequest_noDefault(message, clientId, clientWs, cl, fail) ==
  LET method == Prop(message, "method")
      peerIds == {cl[i].id : i \in {j \in 1..Len(cl) :
                                      cl[j].id # clientId /\ cl[j].url # <<>>}}
      result == IF method = Str("getid") THEN Str(clientId)
                ELSE IF method = Str("getpeers")
                  THEN Obj([id \in peerIds |-> ParseQuery(MapGet(cl, id).url)])
                ELSE Null
      reply == Send(clientWs,
                    JSONstringify(Obj([version |-> Num(PROTOCOL_VERSION),
                                       result |-> result,
                                       id |-> Prop(message, "id")])),
                    fail)
  IN  Result(<<reply>>, <<>>, IF reply.ok THEN NoError ELSE SendError)

(* handleServerRequest: getid and getpeers, replied to the caller.         *)
handleServerRequest(message, clientId, clientWs, cl, fail) ==
  LET method == Prop(message, "method")
      peerIds == {cl[i].id : i \in {j \in 1..Len(cl) :
                                      cl[j].id # clientId /\ cl[j].url # <<>>}}
      result == IF method = Str("getid") THEN Str(clientId)
                ELSE Obj([id \in peerIds |-> ParseQuery(MapGet(cl, id).url)])
      reply == Send(clientWs,
                    JSONstringify(Obj([version |-> Num(PROTOCOL_VERSION),
                                       result |-> result,
                                       id |-> Prop(message, "id")])),
                    fail)
  IN  IF method \notin {Str("getid"), Str("getpeers")}
        THEN Result(<<>>, <<>>,
                    ErrorToString("Error", "unknown method: " \o method.v))
        ELSE Result(<<reply>>, <<>>, IF reply.ok THEN NoError ELSE SendError)

(* forwardRequest dropping a request whose target is not registered. *)
forwardRequest_dropsUnresolved(message, clientId, cl, fail) ==
  LET target == Prop(message, "target").v
      id == Prop(message, "id")
      forwarded ==
        Send(getClientWs(cl, target),
             JSONstringify(Obj([version |-> Num(PROTOCOL_VERSION),
                                method |-> Prop(message, "method"),
                                params |-> Prop(message, "params"),
                                id |-> IF id = Undefined THEN Undefined
                                       ELSE Obj([requestId |-> id,
                                                 clientId |-> Str(clientId)])])),
             fail)
  IN  IF getClientWsThrows(cl, target)
        THEN Result(<<>>, <<>>, NoError)
        ELSE Result(<<forwarded>>, <<>>,
                    IF forwarded.ok THEN NoError ELSE SendError)

(* forwardRequest wrapping the id also when the request has none. *)
forwardRequest_alwaysWraps(message, clientId, cl, fail) ==
  LET target == Prop(message, "target").v
      id == Prop(message, "id")
      forwarded ==
        Send(getClientWs(cl, target),
             JSONstringify(Obj([version |-> Num(PROTOCOL_VERSION),
                                method |-> Prop(message, "method"),
                                params |-> Prop(message, "params"),
                                id |-> Obj([requestId |-> id,
                                            clientId |-> Str(clientId)])])),
             fail)
  IN  IF getClientWsThrows(cl, target)
        THEN Result(<<>>, <<>>, NotFoundError(target))
        ELSE Result(<<forwarded>>, <<>>,
                    IF forwarded.ok THEN NoError ELSE SendError)

(* forwardRequest: the request goes to its target with its id rewritten to *)
(* {requestId, clientId}, clientId being the sender's identity.            *)
forwardRequest(message, clientId, cl, fail) ==
  LET target == Prop(message, "target").v
      id == Prop(message, "id")
      forwarded ==
        Send(getClientWs(cl, target),
             JSONstringify(Obj([version |-> Num(PROTOCOL_VERSION),
                                method |-> Prop(message, "method"),
                                params |-> Prop(message, "params"),
                                id |-> IF id = Undefined THEN Undefined
                                       ELSE Obj([requestId |-> id,
                                                 clientId |-> Str(clientId)])])),
             fail)
  IN  IF getClientWsThrows(cl, target)
        THEN Result(<<>>, <<>>, NotFoundError(target))
        ELSE Result(<<forwarded>>, <<>>,
                    IF forwarded.ok THEN NoError ELSE SendError)

Falsy(v) == v.t \in {"undefined", "null"} \/ v = Str("") \/ v = Num(0)

(* forwardResponse handing the composite id on instead of id.requestId. *)
forwardResponse_compositeId(message, cl, fail) ==
  LET id == Prop(message, "id")
      requester == Prop(id, "clientId").v
      forwarded ==
        Send(getClientWs(cl, requester),
             JSONstringify(Obj([version |-> Num(PROTOCOL_VERSION),
                                result |-> Prop(message, "result"),
                                error |-> Prop(message, "error"),
                                id |-> id])),
             fail)
  IN  IF Falsy(id) THEN Result(<<>>, <<>>, NoError)
      ELSE IF getClientWsThrows(cl, requester)
        THEN Result(<<>>, <<>>, NotFoundError(requester))
      ELSE Result(<<forwarded>>, <<>>,
                  IF forwarded.ok THEN NoError ELSE SendError)

(* forwardResponse: the response goes to id.clientId with id.requestId as  *)
(* its id.                                                                 *)
forwardResponse(message, cl, fail) ==
  LET id == Prop(message, "id")
      requester == Prop(id, "clientId").v
      forwarded ==
        Send(getClientWs(cl, requester),
             JSONstringify(Obj([version |-> Num(PROTOCOL_VERSION),
                                result |-> Prop(message, "result"),
                                error |-> Prop(message, "error"),
                                id |-> Prop(id, "requestId")])),
             fail)
  IN  IF Falsy(id) THEN Result(<<>>, <<>>, NoError)
      ELSE IF getClientWsThrows(cl, requester)
        THEN Result(<<>>, <<>>, NotFoundError(requester))
      ELSE Result(<<forwarded>>, <<>>,
                  IF forwarded.ok THEN NoError ELSE SendError)

(* handleCaughtError replying whether or not the message has an id. *)
handleCaughtError_alwaysReplies(message, error, clientId, clientWs, fail) ==
  LET reply == Send(clientWs,
                    JSONstringify(Obj([version |-> Num(PROTOCOL_VERSION),
                                       error |-> Str(error),
                                       id |-> Prop(message, "id")])),
                    fail)
  IN  Result(<<reply>>,
             IF reply.ok THEN <<>>
             ELSE <<LogEntry("error", "Failed to reply to " \o clientId
                                      \o " with error:")>>,
             NoError)

(* handleCaughtError doing nothing for a message without id. *)
handleCaughtError_silentWithoutId(message, error, clientId, clientWs, fail) ==
  LET reply == Send(clientWs,
                    JSONstringify(Obj([version |-> Num(PROTOCOL_VERSION),
                                       error |-> Str(error),
                                       id |-> Prop(message, "id")])),
                    fail)
  IN  IF Prop(message, "id") = Undefined
        THEN Result(<<>>, <<>>, NoError)
        ELSE Result(<<reply>>,
                    IF reply.ok THEN <<>>
                    ELSE <<LogEntry("error", "Failed to reply to " \o clientId
                                             \o " with error:")>>,
                    NoError)

(* handleCaughtError replying with id.requestId when the id is an object. *)
handleCaughtError_unwrapsId(message, error, clientId, clientWs, fail) ==
  LET id == Prop(message, "id")
      reply == Send(clientWs,
                    JSONstringify(Obj([version |-> Num(PROTOCOL_VERSION),
                                       error |-> Str(error),
                                       id |-> IF id.t = "object"
                                                THEN Prop(id, "requestId")
                                                ELSE id])),
                    fail)
  IN  IF id = Undefined
        THEN Result(<<>>,
                    <<LogEntry("error", "Handling message from " \o clientId
                                        \o " failed with:")>>,
                    NoError)
        ELSE Result(<<reply>>,
                    IF reply.ok THEN <<>>
                    ELSE <<LogEntry("error", "Failed to reply to " \o clientId
                                             \o " with error:")>>,
                    NoError)

(* handleCaughtError: an error reply when the message has an id, a log     *)
(* entry when it has none or when the reply cannot be sent.                *)
handleCaughtError(message, error, clientId, clientWs, fail) ==
  LET reply == Send(clientWs,
                    JSONstringify(Obj([version |-> Num(PROTOCOL_VERSION),
                                       error |-> Str(error),
                                       id |-> Prop(message, "id")])),
                    fail)
  IN  IF Prop(message, "id") = Undefined
        THEN Result(<<>>,
                    <<LogEntry("error", "Handling message from " \o clientId
                                        \o " failed with:")>>,
                    NoError)
        ELSE Result(<<reply>>,
                    IF reply.ok THEN <<>>
                    ELSE <<LogEntry("error", "Failed to reply to " \o clientId
                                             \o " with error:")>>,
                    NoError)

(* The try block testing isResponse before isRequest. *)
Route_responseFirst(message, clientId, clientWs, cl, fail) ==
  IF isBroadcast(message)
    THEN handleSendBroadcast(Str(clientId), message, cl, fail)
  ELSE IF isResponseThrows(message)
    THEN Result(<<>>, <<>>,
                ErrorToString("TypeError",
                              "Cannot read property 'requestId' of null"))
  ELSE IF isResponse(message)
    THEN forwardResponse(message, cl, fail)
  ELSE IF isRequest(message)
    THEN IF Prop(message, "target") = Str("server")
           THEN handleServerRequest(message, clientId, clientWs, cl, fail)
           ELSE forwardRequest(message, clientId, cl, fail)
  ELSE Result(<<>>, <<>>,
              ErrorToString("Error",
                            "Invalid message, did not match the protocol"))

(* The body of the handler's try block: the first matching shape routes.   *)
Route(message, clientId, clientWs, cl, fail) ==
  IF isBroadcast(message)
    THEN handleSendBroadcast(Str(clientId), message, cl, fail)
  ELSE IF isRequest(message)
    THEN IF Prop(message, "target") = Str("server")
           THEN handleServerRequest(message, clientId, clientWs, cl, fail)
           ELSE forwardRequest(message, clientId, cl, fail)
  ELSE IF isResponseThrows(message)
    THEN Result(<<>>, <<>>,
                ErrorToString("TypeError",
                              "Cannot read property 'requestId' of null"))
  ELSE IF isResponse(message)
    THEN forwardResponse(message, cl, fail)
  ELSE Result(<<>>, <<>>,
              ErrorToString("Error",
                            "Invalid message, did not match the protocol"))

(* clientWs.onmessage without the try/catch around the routing. *)
OnMessage_noCatch(frame, clientId, clientWs, cl, fail) ==
  LET parsed == parseMessage(frame.data, frame.binary)
      routed == Route(parsed.message, clientId, clientWs, cl, fail)
  IN  IF parsed.message = Undefined
        THEN [sent |-> <<>>,
              logs |-> parsed.logs \o
                       <<LogEntry("error",
                                  "Received message not matching protocol")>>,
              caught |-> NoError, uncaught |-> NoError]
      ELSE [sent |-> routed.sent, logs |-> routed.logs,
            caught |-> NoError, uncaught |-> routed.error]

(* clientWs.onmessage: parse, route, and turn a thrown error into a reply  *)
(* or a log entry.                                                         *)
OnMessage(frame, clientId, clientWs, cl, fail) ==
  LET parsed == parseMessage(frame.data, frame.binary)
      routed == Route(parsed.message, clientId, clientWs, cl, fail)
      handled == handleCaughtError(parsed.message, routed.error,
                                   clientId, clientWs, fail)
  IN  IF parsed.message = Undefined
        THEN [sent |-> <<>>,
              logs |-> parsed.logs \o
                       <<LogEntry("error",
                                  "Received message not matching protocol")>>,
              caught |-> NoError, uncaught |-> NoError]
      ELSE IF routed.error = NoError
        THEN [sent |-> routed.sent, logs |-> routed.logs,
              caught |-> NoError, uncaught |-> NoError]
      ELSE [sent |-> routed.sent \o handled.sent,
            logs |-> routed.logs \o handled.logs,
            caught |-> routed.error, uncaught |-> handled.error]

(* The connection handler numbering a client by the size of the registry. *)
onConnection_registrySize(url, clientWs, cl, next, om) ==
  IF url = <<>>
    THEN [registered |-> FALSE, clientId |-> "", nextClientId |-> next,
          clients |-> cl, onmessage |-> om]
    ELSE [registered |-> TRUE, clientId |-> ClientIdOf(Len(cl)),
          nextClientId |-> next + 1,
          clients |-> MapSet(cl, ClientIdOf(Len(cl)), clientWs, url),
          onmessage |-> om \cup {clientWs}]

(* wss.on('connection'): a request without URL is left alone; any other    *)
(* gets the next identity, a registry entry and its handlers.              *)
onConnection(url, clientWs, cl, next, om) ==
  IF url = <<>>
    THEN [registered |-> FALSE, clientId |-> "", nextClientId |-> next,
          clients |-> cl, onmessage |-> om]
    ELSE [registered |-> TRUE, clientId |-> ClientIdOf(next),
          nextClientId |-> next + 1,
          clients |-> MapSet(cl, ClientIdOf(next), clientWs, url),
          onmessage |-> om \cup {clientWs}]

(* onCloseHandler deleting by the socket, which is no key of the Map. *)
onCloseHandler_wrongKey(clientId, clientWs, cl, om) ==
  [clients |-> cl, onmessage |-> om \ {clientWs}]

(* onCloseHandler that leaves the onmessage handler installed. *)
onCloseHandler_keepsHandler(clientId, clientWs, cl, om) ==
  [clients |-> MapDelete(cl, clientId), onmessage |-> om]

(* onCloseHandler, installed as onclose and as onerror.                    *)
onCloseHandler(clientId, clientWs, cl, om) ==
  [clients |-> MapDelete(cl, clientId), onmessage |-> om \ {clientWs}]

(***************************************************************************)
(* The inputs: upgrade-request URLs, as tokens, and inbound frames.        *)
(***************************************************************************)
UrlWithQuery ==
  <<"/debugger-proxy", "?", "role", "=", "debugger", "&", "name", "=", "Chrome">>
UrlNoQuery == <<"/debugger-proxy">>
Urls == {UrlWithQuery, UrlNoQuery, <<>>}

(* Every identity the run can assign, and one it never assigns. *)
TargetIds == {ClientIdOf(n) : n \in 0..MaxClients}

V2 == Num(PROTOCOL_VERSION)
SomeParams == Obj([file |-> Str("App.js")])
CompositeId(r, c) == Obj([requestId |-> r, clientId |-> Str(c)])

Merge(f, g) ==
  [p \in DOMAIN f \cup DOMAIN g |-> IF p \in DOMAIN g THEN g[p] ELSE f[p]]
Without(f, q) == [p \in DOMAIN f \ {q} |-> f[p]]

ParamOpts == {EmptyFields, [params |-> SomeParams]}

BroadcastShapes ==
  {[version |-> V2, method |-> Str("reload")],
   [version |-> V2, method |-> Str("reload"), params |-> SomeParams],
   [version |-> V2, method |-> Str("reload"), params |-> SomeParams,
    from |-> Str(ClientIdOf(0)), result |-> Num(42)]}

ServerRequests ==
  {Merge([version |-> V2, method |-> Str(m), target |-> Str("server")], i) :
     m \in {"getid", "getpeers", "m"},
     i \in {EmptyFields, [id |-> Str("r1")], [id |-> Null]}}

PeerRequests ==
  {Merge(Merge([version |-> V2, method |-> Str("m"), target |-> Str(t)], i), p) :
     t \in TargetIds,
     i \in {EmptyFields, [id |-> Str("r1")], [id |-> Null],
            [id |-> CompositeId(Str("r1"), ClientIdOf(0)), result |-> Num(42)]},
     p \in ParamOpts}

Responses ==
  {Merge([version |-> V2, id |-> CompositeId(Str("r1"), c)], b) :
     c \in TargetIds,
     b \in {[result |-> Num(42)], [error |-> Str("e")],
            [result |-> Null, error |-> Str("e")]}}
  \cup {[version |-> V2, id |-> CompositeId(Null, c), result |-> Num(42)] :
          c \in TargetIds}

InvalidShapes ==
  {[version |-> V2],
   [version |-> V2, id |-> Str("r1")],
   [version |-> V2, id |-> Str("r1"), result |-> Num(42)],
   [version |-> V2, id |-> Null, result |-> Num(42)],
   [version |-> V2, id |-> Obj([requestId |-> Str("r1")]), result |-> Num(42)],
   [version |-> V2, id |-> CompositeId(Str("r1"), ClientIdOf(0))],
   [version |-> V2, method |-> Num(7)],
   [version |-> V2, method |-> Str("m"), id |-> Str("r1")],
   [version |-> V2, target |-> Str("server")],
   [version |-> V2, target |-> Str("server"), id |-> Str("r1")]}

Version2Messages ==
  BroadcastShapes \cup ServerRequests \cup PeerRequests \cup Responses
  \cup InvalidShapes

(* Messages of every shape with another version, or none. *)
WrongVersionMessages ==
  LET some == BroadcastShapes \cup ServerRequests
              \cup {f \in PeerRequests : f.target = Str(ClientIdOf(0))}
              \cup {f \in Responses :
                      f.id = CompositeId(Str("r1"), ClientIdOf(0))}
      few == {[version |-> V2, method |-> Str("reload")],
              [version |-> V2, method |-> Str("getid"),
               target |-> Str("server"), id |-> Str("r1")],
              [version |-> V2, id |-> CompositeId(Str("r1"), ClientIdOf(0)),
               result |-> Num(42)]}
  IN  {[f EXCEPT !.version = Num(1)] : f \in some}
      \cup {[f EXCEPT !.version = Str("2")] : f \in few}
      \cup {Without(f, "version") : f \in few}

Json(v) == [text |-> "json", value |-> v]

Frames ==
  {[data |-> Json(Obj(f)), binary |-> FALSE] :
     f \in Version2Messages \cup WrongVersionMessages}
  \cup {[data |-> Json(Null), binary |-> FALSE],
        [data |-> Json(Num(2)), binary |-> FALSE],
        [data |-> [text |-> "{not json"], binary |-> FALSE],
        [data |-> Json(Obj([version |-> V2, method |-> Str("reload")])),
         binary |-> TRUE]}

(***************************************************************************)
(* The state machine.                                                      *)
(***************************************************************************)
Idle == [kind |-> "idle"]
NoPre == [clients |-> <<>>, onmessage |-> {}, nextClientId |-> 0]
Snapshot == [clients |-> clients, onmessage |-> onmessage,
             nextClientId |-> nextClientId]
Sockets == 1..Len(accepted)
RegisteredSockets == {clients[i].ws : i \in 1..Len(clients)}
ClosedSockets == {p[1] : p \in closed}

Init ==
  /\ clients = <<>>
  /\ nextClientId = 0
  /\ onmessage = {}
  /\ accepted = <<>>
  /\ closed = {}
  /\ ev = Idle
  /\ pre = NoPre
  /\ sent = <<>>
  /\ logs = <<>>
  /\ caught = NoError
  /\ uncaught = NoError

(* A WebSocket connection arrives at the server. *)
Connection(url) ==
  LET clientWs == Len(accepted) + 1
      c == onConnection(url, clientWs, clients, nextClientId, onmessage)
  IN  /\ ev = Idle
      /\ Len(accepted) < MaxClients
      /\ clients' = c.clients
      /\ nextClientId' = c.nextClientId
      /\ onmessage' = c.onmessage
      /\ accepted' = IF c.registered
                       THEN Append(accepted, [id |-> c.clientId, url |-> url])
                       ELSE accepted
      /\ ev' = [kind |-> "connection", url |-> url,
                registered |-> c.registered, clientId |-> c.clientId]
      /\ pre' = Snapshot
      /\ UNCHANGED <<closed, sent, logs, caught, uncaught>>

(* The close or error event of an accepted socket. *)
Disconnect(kind, clientWs) ==
  LET h == onCloseHandler(accepted[clientWs].id, clientWs, clients, onmessage)
  IN  /\ ev = Idle
      /\ clientWs \in Sockets
      /\ clients' = h.clients
      /\ onmessage' = h.onmessage
      /\ closed' = IF clientWs \in ClosedSockets THEN closed
                   ELSE closed \cup {<<clientWs, kind>>}
      /\ ev' = [kind |-> kind, ws |-> clientWs,
                before |-> {p[2] : p \in {q \in closed : q[1] = clientWs}}]
      /\ pre' = Snapshot
      /\ UNCHANGED <<nextClientId, accepted, sent, logs, caught, uncaught>>

Close(clientWs) == Disconnect("close", clientWs)
Error(clientWs) == Disconnect("error", clientWs)

Deliver(clientWs, frame, fail, re) ==
  LET h == OnMessage(frame, accepted[clientWs].id, clientWs, clients, fail)
  IN  /\ clientWs \in onmessage
      /\ sent' = h.sent
      /\ logs' = h.logs
      /\ caught' = h.caught
      /\ uncaught' = h.uncaught
      /\ ev' = [kind |-> "message", ws |-> clientWs, frame |-> frame,
                fail |-> fail, re |-> re]
      /\ pre' = Snapshot
      /\ UNCHANGED <<clients, nextClientId, onmessage, accepted, closed>>

NoRequest == [ws |-> 0]

(* A frame arrives on a socket whose onmessage handler is installed. *)
Message(clientWs, frame, fail) ==
  /\ ev = Idle
  /\ Deliver(clientWs, frame, fail, NoRequest)

AnswerOf(i) ==
  [data |-> Json(Obj([version |-> V2,
                      id |-> Prop(JSONparse(sent[i].data), "id"),
                      result |-> Num(42)])),
   binary |-> FALSE]

(* The peer that was just sent a forwarded request with an id answers it,  *)
(* giving back the id it received.                                         *)
Answer(i, fail) ==
  /\ ev.kind = "message"
  /\ ev.re = NoRequest
  /\ i \in 1..Len(sent)
  /\ sent[i].ok
  /\ Prop(JSONparse(sent[i].data), "method") # Undefined
  /\ Prop(JSONparse(sent[i].data), "id") # Undefined
  /\ Deliver(sent[i].to, AnswerOf(i), fail, [ws |-> ev.ws, frame |-> ev.frame])

(* The host calls broadcast(method, params). *)
Broadcast(method, params, fail) ==
  LET h == handleSendBroadcast(Null, Obj([method |-> method, params |-> params]),
                               clients, fail)
  IN  /\ ev = Idle
      /\ sent' = h.sent
      /\ logs' = h.logs
      /\ ev' = [kind |-> "broadcast", method |-> method, params |-> params,
                fail |-> fail]
      /\ pre' = Snapshot
      /\ UNCHANGED <<clients, nextClientId, onmessage, accepted, closed,
                     caught, uncaught>>

(* A frame arrives on a socket whose onmessage is null: no handler runs. *)
MessageUnhandled(clientWs, frame) ==
  /\ ev = Idle
  /\ clientWs \in Sockets
  /\ clientWs \notin onmessage
  /\ ev' = [kind |-> "unhandled", ws |-> clientWs, frame |-> frame]
  /\ pre' = Snapshot
  /\ UNCHANGED <<clients, nextClientId, onmessage, accepted, closed,
                 sent, logs, caught, uncaught>>

(* The handler has returned; the next event is taken from the queue. *)
Return ==
  /\ ev # Idle
  /\ ev' = Idle
  /\ pre' = NoPre
  /\ sent' = <<>>
  /\ logs' = <<>>
  /\ caught' = NoError
  /\ uncaught' = NoError
  /\ UNCHANGED <<clients, nextClientId, onmessage, accepted, closed>>

(* The sockets a handler run can call send on: those it calls send on when *)
(* every send throws (the destinations, and the sender for the error       *)
(* reply).  Whether any other socket would throw makes no difference.      *)
SendTargets(clientWs, frame) ==
  LET h == OnMessage(frame, accepted[clientWs].id, clientWs, clients,
                     RegisteredSockets)
  IN  {h.sent[i].to : i \in 1..Len(h.sent)}

Next ==
  \/ \E url \in Urls : Connection(url)
  \/ \E clientWs \in Sockets : Close(clientWs)
  \/ \E clientWs \in Sockets : Error(clientWs)
  \/ /\ ev = Idle
     /\ \E clientWs \in onmessage, frame \in Frames :
          \E fail \in SUBSET SendTargets(clientWs, frame) :
            Message(clientWs, frame, fail)
  \/ /\ ev = Idle
     /\ \E clientWs \in Sockets \ onmessage, frame \in Frames :
          MessageUnhandled(clientWs, frame)
  \/ /\ ev.kind = "message"
     /\ \E i \in 1..Len(sent) :
          \E fail \in SUBSET SendTargets(sent[i].to, AnswerOf(i)) :
            Answer(i, fail)
  \/ /\ ev = Idle
     /\ \E params \in {Undefined, SomeParams}, fail \in SUBSET RegisteredSockets :
          Broadcast(Str("reload"), params, fail)
  \/ Return

Spec == Init /\ [][Next]_vars

(***************************************************************************)
(* Vocabulary of the properties below: the inbound message of the last     *)
(* event and its shape, read off the frame, and the messages sent.         *)
(***************************************************************************)
IsMessageEvent == ev.kind = "message"
InMsg == ev.frame.data.value
InField(p) == Prop(InMsg, p)
IsJsonObject ==
  /\ IsMessageEvent
  /\ ~ev.frame.binary
  /\ ev.frame.data.text = "json"
  /\ InMsg.t = "object"
Validated == IsJsonObject /\ InField("version") = Num(2)
ShapeBroadcast ==
  /\ InField("method").t = "string"
  /\ "id" \notin DOMAIN InMsg.o
  /\ "target" \notin DOMAIN InMsg.o
ShapeRequest == InField("method").t = "string" /\ InField("target").t = "string"
ShapeResponse ==
  /\ InField("id").t = "object"
  /\ "requestId" \in DOMAIN InField("id").o
  /\ InField("id").o.requestId.t # "undefined"
  /\ "clientId" \in DOMAIN InField("id").o
  /\ InField("id").o.clientId.t = "string"
  /\ ("result" \in DOMAIN InMsg.o \/ "error" \in DOMAIN InMsg.o)
RoutedAsRequest == Validated /\ ~ShapeBroadcast /\ ShapeRequest
RoutedAsResponse ==
  Validated /\ ~ShapeBroadcast /\ ~ShapeRequest /\ ShapeResponse
HasId == "id" \in DOMAIN InMsg.o

SenderId == accepted[ev.ws].id
PreIds == {pre.clients[i].id : i \in 1..Len(pre.clients)}
PreSockets == {pre.clients[i].ws : i \in 1..Len(pre.clients)}
SocketOf(id) == CHOOSE w \in 1..Len(accepted) : accepted[w].id = id
RegistryUnchanged ==
  /\ clients = pre.clients
  /\ onmessage = pre.onmessage
  /\ nextClientId = pre.nextClientId

(* The fields of the i-th message sent, as the receiver parses them. *)
Out(i) == sent[i].data.value.o
OutField(i, p) == IF p \in DOMAIN Out(i) THEN Out(i)[p] ELSE Undefined

(***************************************************************************)
(* C1.  Round-trip correlation.  A request with an id from A to a          *)
(* registered B is sent to B with the request's method and params and the  *)
(* id {requestId: r, clientId: A}; a response that names a registered A in *)
(* id.clientId is sent to A with result, error and id.requestId as its id; *)
(* and when B answers the request it was just sent, giving back the id it  *)
(* received, A is sent exactly {version, result, id: r}, r being the id of *)
(* A's own request.  Nothing else is sent unless that send throws.         *)
(***************************************************************************)
C1_RequestWrapped ==
  (/\ RoutedAsRequest
   /\ HasId
   /\ InField("target").v \in PreIds)
  => /\ Len(sent) >= 1
     /\ sent[1].to = SocketOf(InField("target").v)
     /\ DOMAIN Out(1) \subseteq {"version", "method", "params", "id"}
     /\ OutField(1, "version") = Num(2)
     /\ OutField(1, "method") = InField("method")
     /\ OutField(1, "params") = InField("params")
     /\ OutField(1, "id")
          = Obj([requestId |-> InField("id"), clientId |-> Str(SenderId)])
     /\ (sent[1].ok => Len(sent) = 1)

C1_ResponseUnwrapped ==
  (/\ RoutedAsResponse
   /\ InField("id").o.clientId.v \in PreIds)
  => /\ Len(sent) >= 1
     /\ sent[1].to = SocketOf(InField("id").o.clientId.v)
     /\ DOMAIN Out(1) \subseteq {"version", "result", "error", "id"}
     /\ OutField(1, "version") = Num(2)
     /\ OutField(1, "result") = InField("result")
     /\ OutField(1, "error") = InField("error")
     /\ OutField(1, "id") = InField("id").o.requestId
     /\ (sent[1].ok => Len(sent) = 1)

C1_AnswerReachesRequester ==
  (IsMessageEvent /\ ev.re # NoRequest)
  => /\ Len(sent) >= 1
     /\ sent[1].to = ev.re.ws
     /\ Out(1) = [version |-> Num(2), result |-> Num(42),
                  id |-> Prop(ev.re.frame.data.value, "id")]
     /\ (sent[1].ok => Len(sent) = 1)

C1_RoundTrip ==
  C1_RequestWrapped /\ C1_ResponseUnwrapped /\ C1_AnswerReachesRequester

(* B has answered A's request "r1" and A, another connection, was sent it. *)
C1_Witness ==
  /\ IsMessageEvent
  /\ ev.re # NoRequest
  /\ ev.re.ws # ev.ws
  /\ Prop(ev.re.frame.data.value, "id") = Str("r1")
  /\ Len(sent) = 1
  /\ sent[1].ok
  /\ sent[1].to = ev.re.ws
  /\ OutField(1, "id") = Str("r1")

(***************************************************************************)
(* C2.  A broadcast from connection A is sent once to every other          *)
(* registered connection and not to A, and every copy holds version,       *)
(* method and params of the broadcast and no other field.                  *)
(***************************************************************************)
C2_BroadcastFanOut ==
  (Validated /\ ShapeBroadcast)
  => /\ {sent[i].to : i \in 1..Len(sent)} = PreSockets \ {ev.ws}
     /\ Len(sent) = Cardinality(PreSockets \ {ev.ws})
     /\ \A i \in 1..Len(sent) :
          /\ DOMAIN Out(i) \subseteq {"version", "method", "params"}
          /\ OutField(i, "version") = Num(2)
          /\ OutField(i, "method") = InField("method")
          /\ OutField(i, "params") = InField("params")
     /\ caught = NoError

(* A broadcast that carries other fields, with two other connections. *)
C2_Witness ==
  /\ Validated
  /\ ShapeBroadcast
  /\ "from" \in DOMAIN InMsg.o
  /\ "result" \in DOMAIN InMsg.o
  /\ ev.ws \in PreSockets
  /\ Len(sent) = 2
  /\ \A i \in 1..2 : sent[i].ok /\ sent[i].to # ev.ws
  /\ sent[1].to # sent[2].to

(***************************************************************************)
(* C3.  The identities given to accepted connections are client#0,         *)
(* client#1, ... in order of acceptance, pairwise distinct, whatever was   *)
(* closed in between; each registry entry holds the identity its socket    *)
(* was given.                                                              *)
(***************************************************************************)
C3_IdentitiesIncrease ==
  /\ \A w \in 1..Len(accepted) : accepted[w].id = "client#" \o ToString(w - 1)
  /\ \A v, w \in 1..Len(accepted) : v # w => accepted[v].id # accepted[w].id
  /\ \A i \in 1..Len(clients) :
       /\ clients[i].ws \in 1..Len(accepted)
       /\ clients[i].id = accepted[clients[i].ws].id
  /\ (ev.kind = "connection" /\ ev.registered
      => ev.clientId \notin {accepted[w].id : w \in 1..(Len(accepted) - 1)})

(* A third connection is accepted after an earlier one was closed. *)
C3_Witness ==
  /\ ev.kind = "connection"
  /\ ev.registered
  /\ Len(accepted) = 3
  /\ ClosedSockets # {}
  /\ Len(clients) = 2
  /\ ev.clientId = "client#2"

(***************************************************************************)
(* C4.  A message whose version is not 2 is not routed: nothing is sent,   *)
(* the registry is as before, and the rejection is logged.                 *)
(***************************************************************************)
C4_WrongVersionRejected ==
  (/\ IsMessageEvent
   /\ ~ev.frame.binary
   /\ ev.frame.data.text = "json"
   /\ InMsg.t # "null"
   /\ InField("version") # Num(2))
  => /\ sent = <<>>
     /\ RegistryUnchanged
     /\ caught = NoError
     /\ uncaught = NoError
     /\ \E i \in 1..Len(logs) :
          logs[i] = [level |-> "error",
                     text |-> "Received message had wrong protocol version"]

(* A server request with an id whose version is the string "2". *)
C4_Witness ==
  /\ IsJsonObject
  /\ InField("version") = Str("2")
  /\ ShapeRequest
  /\ InField("target") = Str("server")
  /\ HasId
  /\ Len(pre.clients) >= 2
  /\ sent = <<>>

(* The ways routing the last message fails, read off the message, the      *)
(* registry it found and the sockets whose send throws.                    *)
NotFoundText(id) ==
  "Error: could not find id \"" \o id \o "\" while forwarding request"
ServerRequest(m) ==
  RoutedAsRequest /\ InField("target") = Str("server") /\ InField("method") = Str(m)
UnknownMethod ==
  /\ RoutedAsRequest
  /\ InField("target") = Str("server")
  /\ InField("method") \notin {Str("getid"), Str("getpeers")}
UnresolvedRequest ==
  /\ RoutedAsRequest
  /\ InField("target") # Str("server")
  /\ InField("target").v \notin PreIds
UnresolvedResponse ==
  RoutedAsResponse /\ InField("id").o.clientId.v \notin PreIds
InvalidShape ==
  Validated /\ ~ShapeBroadcast /\ ~ShapeRequest /\ ~ShapeResponse
FailedSend ==
  \/ (ServerRequest("getid") \/ ServerRequest("getpeers")) /\ ev.ws \in ev.fail
  \/ /\ RoutedAsRequest
     /\ InField("target").v \in PreIds
     /\ SocketOf(InField("target").v) \in ev.fail
  \/ /\ RoutedAsResponse
     /\ InField("id").o.clientId.v \in PreIds
     /\ SocketOf(InField("id").o.clientId.v) \in ev.fail
RoutingFails ==
  UnknownMethod \/ UnresolvedRequest \/ UnresolvedResponse \/ InvalidShape
  \/ FailedSend

(***************************************************************************)
(* C5 as claimed.  Every request whose target has no registry entry is     *)
(* answered to its sender with an error response saying the identity was   *)
(* not found, and nothing goes to any other connection.                    *)
(***************************************************************************)
C5_EveryUnresolvedRequestAnswered ==
  UnresolvedRequest
  => /\ \E i \in 1..Len(sent) :
          /\ sent[i].to = ev.ws
          /\ OutField(i, "error") = Str(NotFoundText(InField("target").v))
     /\ \A i \in 1..Len(sent) : sent[i].to = ev.ws
     /\ uncaught = NoError
     /\ RegistryUnchanged

(***************************************************************************)
(* C5 as amended.  A request whose target has no registry entry fails with *)
(* the identity-not-found error.  When the request carries an id, exactly  *)
(* one message is sent, to the sender: {version, error, id}, the error     *)
(* saying the identity was not found.  When it carries no id nothing is    *)
(* sent and the error is logged.  Nothing escapes the handler and the      *)
(* registry is as before.                                                  *)
(***************************************************************************)
C5_UnresolvedRequest ==
  UnresolvedRequest
  => /\ caught = NotFoundText(InField("target").v)
     /\ uncaught = NoError
     /\ RegistryUnchanged
     /\ (HasId =>
           /\ Len(sent) = 1
           /\ sent[1].to = ev.ws
           /\ Out(1) = [version |-> Num(2),
                        error |-> Str(NotFoundText(InField("target").v)),
                        id |-> InField("id")])
     /\ (~HasId =>
           /\ sent = <<>>
           /\ Len(logs) = 1
           /\ logs[1].level = "error")

(* A request with an id to a connection that has disconnected. *)
C5_Witness ==
  /\ UnresolvedRequest
  /\ HasId
  /\ \E w \in ClosedSockets : accepted[w].id = InField("target").v
  /\ Len(pre.clients) >= 2
  /\ Len(sent) = 1
  /\ sent[1].ok

(***************************************************************************)
(* C6 as claimed.  getid produces exactly one message, the reply to the    *)
(* caller with the caller's identity and the id of the request.            *)
(***************************************************************************)
C6_ExactlyOneReply ==
  ServerRequest("getid")
  => /\ Len(sent) = 1
     /\ sent[1].to = ev.ws
     /\ OutField(1, "result") = Str(SenderId)
     /\ OutField(1, "id") = InField("id")

(***************************************************************************)
(* C6 as amended.  getid sends the caller {version, result, id}, result    *)
(* the caller's identity and id the id of the request, and sends nothing   *)
(* to any other connection.  That reply is the only message unless its     *)
(* send throws; then, if the request has an id, an error reply to the      *)
(* caller follows.                                                         *)
(***************************************************************************)
C6_GetIdReply ==
  ServerRequest("getid")
  => /\ Len(sent) >= 1
     /\ \A i \in 1..Len(sent) : sent[i].to = ev.ws
     /\ DOMAIN Out(1) \subseteq {"version", "result", "id"}
     /\ OutField(1, "version") = Num(2)
     /\ OutField(1, "result") = Str(SenderId)
     /\ OutField(1, "id") = InField("id")
     /\ (sent[1].ok => Len(sent) = 1 /\ caught = NoError)
     /\ (~sent[1].ok =>
           /\ Len(sent) = (IF HasId THEN 2 ELSE 1)
           /\ (HasId => Out(2) = [version |-> Num(2), error |-> Str(caught),
                                  id |-> InField("id")]))

(* The second of three connections asks for its identity. *)
C6_Witness ==
  /\ ServerRequest("getid")
  /\ InField("id") = Str("r1")
  /\ Len(pre.clients) = 3
  /\ SenderId = "client#1"
  /\ Len(sent) = 1
  /\ sent[1].ok
  /\ OutField(1, "result") = Str("client#1")

(***************************************************************************)
(* C7.  getpeers replies to the caller with a mapping whose keys are the   *)
(* registered identities other than the caller's, none of a closed         *)
(* connection, each mapped to the query parameters of the URL that         *)
(* connection was accepted with.                                           *)
(***************************************************************************)
ExpectedQuery(u) ==
  IF u = <<"/debugger-proxy", "?", "role", "=", "debugger", "&", "name", "=",
           "Chrome">>
    THEN Obj([role |-> Str("debugger"), name |-> Str("Chrome")])
    ELSE Obj(EmptyFields)

C7_GetPeers ==
  ServerRequest("getpeers")
  => /\ Len(sent) >= 1
     /\ sent[1].to = ev.ws
     /\ OutField(1, "id") = InField("id")
     /\ OutField(1, "result").t = "object"
     /\ DOMAIN OutField(1, "result").o = PreIds \ {SenderId}
     /\ \A w \in ClosedSockets : accepted[w].id \notin DOMAIN OutField(1, "result").o
     /\ \A k \in DOMAIN OutField(1, "result").o :
          OutField(1, "result").o[k] = ExpectedQuery(accepted[SocketOf(k)].url)

(* Two peers with different URLs are listed. *)
C7_Witness ==
  /\ ServerRequest("getpeers")
  /\ Len(pre.clients) = 3
  /\ sent[1].ok
  /\ Cardinality(DOMAIN OutField(1, "result").o) = 2
  /\ \E j, k \in DOMAIN OutField(1, "result").o :
       /\ OutField(1, "result").o[j] = Obj(EmptyFields)
       /\ OutField(1, "result").o[k]
            = Obj([role |-> Str("debugger"), name |-> Str("Chrome")])

(***************************************************************************)
(* C8.  The registry holds one entry for every accepted connection whose   *)
(* close or error event has not been handled and no other entry.  The      *)
(* first close or error event of a connection removes its entry and only   *)
(* that; a later one changes nothing; routing a message or a broadcast     *)
(* changes nothing; no handler lets an exception escape.                   *)
(***************************************************************************)
C8_RegistryExact ==
  /\ {clients[i].id : i \in 1..Len(clients)}
       = {accepted[w].id : w \in (1..Len(accepted)) \ ClosedSockets}
  /\ \A i, j \in 1..Len(clients) : i # j => clients[i].id # clients[j].id
  /\ (ev.kind \in {"close", "error"} /\ ev.before # {} => RegistryUnchanged)
  /\ (ev.kind \in {"close", "error"} /\ ev.before = {} =>
        /\ Len(clients) = Len(pre.clients) - 1
        /\ clients = SelectSeq(pre.clients, LAMBDA c : c.ws # ev.ws))
  /\ (ev.kind \in {"message", "broadcast"} => RegistryUnchanged)
  /\ uncaught = NoError

(* A close event after the error event of the same connection. *)
C8_Witness ==
  /\ ev.kind = "close"
  /\ ev.before = {"error"}
  /\ Len(clients) = 2
  /\ clients = pre.clients

(***************************************************************************)
(* C9.  Routing a message that carries an id fails exactly for an unknown  *)
(* server method, an unresolved target, an invalid shape or a send that    *)
(* throws; the failure is caught and answered by one error response        *)
(* {version, error, id} to the sender, the last message sent, with the id  *)
(* of the failing message; whatever was sent before it is the send that    *)
(* threw.  Nothing escapes the handler and no connection is closed.        *)
(***************************************************************************)
C9_FailureAnswered ==
  (Validated /\ HasId)
  => /\ uncaught = NoError
     /\ RegistryUnchanged
     /\ (RoutingFails <=> caught # NoError)
     /\ (caught # NoError =>
           /\ Len(sent) \in {1, 2}
           /\ sent[Len(sent)].to = ev.ws
           /\ Out(Len(sent)) = [version |-> Num(2), error |-> Str(caught),
                                id |-> InField("id")]
           /\ \A i \in 1..(Len(sent) - 1) : ~sent[i].ok)

(* The send of a forwarded request throws and the sender is told. *)
C9_Witness ==
  /\ RoutedAsRequest
  /\ InField("id") = Str("r1")
  /\ FailedSend
  /\ Len(sent) = 2
  /\ ~sent[1].ok
  /\ sent[1].to # ev.ws
  /\ sent[2].ok
  /\ sent[2].to = ev.ws
  /\ OutField(2, "id") = Str("r1")

(***************************************************************************)
(* C10.  Routing a message without id fails in the same cases (a broadcast *)
(* never fails); the failure is caught and logged, once, and no message is *)
(* sent because of it: the only send the run can hold is the one that      *)
(* threw.                                                                  *)
(***************************************************************************)
C10_FailureLoggedOnly ==
  (Validated /\ ~HasId)
  => /\ uncaught = NoError
     /\ RegistryUnchanged
     /\ (RoutingFails <=> caught # NoError)
     /\ (caught # NoError =>
           /\ logs = <<[level |-> "error",
                        text |-> "Handling message from " \o SenderId
                                 \o " failed with:"]>>
           /\ Len(sent) <= 1
           /\ \A i \in 1..Len(sent) :
                ~sent[i].ok /\ "error" \notin DOMAIN Out(i))

(* A request without id to an identity never assigned, two peers present. *)
C10_Witness ==
  /\ UnresolvedRequest
  /\ ~HasId
  /\ Len(pre.clients) = 3
  /\ caught # NoError
  /\ sent = <<>>
  /\ Len(logs) = 1


(***************************************************************************)
(* C11 as claimed.  Every request to 'server' whose method is neither      *)
(* getid nor getpeers is answered to the caller with an error response     *)
(* that names the unknown method, and no result is replied.                *)
(***************************************************************************)
C11_EveryUnknownMethodAnswered ==
  UnknownMethod
  => /\ \E i \in 1..Len(sent) :
          /\ sent[i].to = ev.ws
          /\ OutField(i, "error")
               = Str("Error: unknown method: " \o InField("method").v)
     /\ \A i \in 1..Len(sent) : "result" \notin DOMAIN Out(i)

(***************************************************************************)
(* C11 as amended.  A request to 'server' whose method is neither getid    *)
(* nor getpeers fails with the unknown-method error and no result is       *)
(* replied.  When the request carries an id, exactly one message is sent,  *)
(* to the caller: {version, error, id}, the error naming the method.  When *)
(* it carries no id nothing is sent and the error is logged.               *)
(***************************************************************************)
C11_UnknownMethod ==
  UnknownMethod
  => /\ caught = "Error: unknown method: " \o InField("method").v
     /\ uncaught = NoError
     /\ \A i \in 1..Len(sent) : "result" \notin DOMAIN Out(i)
     /\ (HasId =>
           /\ Len(sent) = 1
           /\ sent[1].to = ev.ws
           /\ Out(1) = [version |-> Num(2),
                        error |-> Str("Error: unknown method: "
                                      \o InField("method").v),
                        id |-> InField("id")])
     /\ (~HasId =>
           /\ sent = <<>>
           /\ Len(logs) = 1
           /\ logs[1].level = "error")

(* Method "m" asked of the server, with an id, by one of two connections. *)
C11_Witness ==
  /\ UnknownMethod
  /\ InField("method") = Str("m")
  /\ InField("id") = Str("r1")
  /\ Len(pre.clients) = 2
  /\ Len(sent) = 1
  /\ sent[1].ok
  /\ OutField(1, "error") = Str("Error: unknown method: m")


(***************************************************************************)
(* C12.  The host's broadcast(method, params) sends one copy, {version,    *)
(* method, params}, to every registered connection, in registry order and  *)
(* leaving none out, and changes neither the registry nor the counter.     *)
(***************************************************************************)
C12_HostBroadcastToAll ==
  ev.kind = "broadcast"
  => /\ Len(sent) = Len(pre.clients)
     /\ \A i \in 1..Len(sent) :
          /\ sent[i].to = pre.clients[i].ws
          /\ DOMAIN Out(i) \subseteq {"version", "method", "params"}
          /\ OutField(i, "version") = Num(2)
          /\ OutField(i, "method") = ev.method
          /\ OutField(i, "params") = ev.params
     /\ {sent[i].to : i \in 1..Len(sent)} = PreSockets
     /\ RegistryUnchanged

(* Three connections are registered and each is sent the copy. *)
C12_Witness ==
  /\ ev.kind = "broadcast"
  /\ ev.params # Undefined
  /\ Len(pre.clients) = 3
  /\ Len(sent) = 3
  /\ \A i \in 1..3 : sent[i].ok /\ "params" \in DOMAIN Out(i)
  /\ Cardinality({sent[i].to : i \in 1..3}) = 3

(***************************************************************************)
(* C13.  A host broadcast on an empty registry calls send on nothing, logs *)
(* the one 'no apps connected' warning and raises nothing; on a registry   *)
(* that is not empty that warning is not logged.                           *)
(***************************************************************************)
C13_NoAppsDiagnostic ==
  ev.kind = "broadcast"
  => /\ caught = NoError
     /\ uncaught = NoError
     /\ (pre.clients = <<>> =>
           /\ sent = <<>>
           /\ logs = <<[level |-> "warn", text |-> "No apps connected"]>>)
     /\ (pre.clients # <<>> =>
           \A i \in 1..Len(logs) :
             logs[i] # [level |-> "warn", text |-> "No apps connected"])

(* Every connection accepted so far has gone when the host broadcasts. *)
C13_Witness ==
  /\ ev.kind = "broadcast"
  /\ Len(accepted) = 2
  /\ pre.clients = <<>>
  /\ sent = <<>>
  /\ Len(logs) = 1

(* The other case: one connection is registered and no warning is logged. *)
C13_WitnessNonEmpty ==
  /\ ev.kind = "broadcast"
  /\ Len(pre.clients) = 1
  /\ Len(sent) = 1
  /\ logs = <<>>


(***************************************************************************)
(* C14.  The first shape a validated message matches, in the order         *)
(* Broadcast, Request, Response, decides its route, and a message matching *)
(* none fails.  Each route is told by what the run did:                    *)
(*  - Broadcast: copies without id to the other connections, no failure;   *)
(*  - Request to 'server': only the sender is sent anything, and a getid   *)
(*    or getpeers reply carries the request's id as it came;               *)
(*  - Request to a peer: the first send goes to the target and carries the *)
(*    method and neither result nor error, or the target is reported not   *)
(*    found;                                                               *)
(*  - Response: the first send goes to id.clientId with id.requestId as id *)
(*    and no method, or id.clientId is reported not found;                 *)
(*  - none: the failure is the one of a message that matches no shape.     *)
(* A message with a string method and a string target takes the Request    *)
(* route also when it has an id {requestId, clientId} and a result.        *)
(***************************************************************************)
BroadcastOutcome ==
  /\ caught = NoError
  /\ {sent[i].to : i \in 1..Len(sent)} = PreSockets \ {ev.ws}
  /\ \A i \in 1..Len(sent) :
       /\ "id" \notin DOMAIN Out(i)
       /\ OutField(i, "method") = InField("method")
ServerRequestOutcome ==
  /\ \A i \in 1..Len(sent) : sent[i].to = ev.ws
  /\ IF InField("method") \in {Str("getid"), Str("getpeers")}
       THEN /\ caught \in {NoError, SendError}
            /\ Len(sent) >= 1
            /\ "result" \in DOMAIN Out(1)
            /\ OutField(1, "id") = InField("id")
       ELSE caught = "Error: unknown method: " \o InField("method").v
PeerRequestOutcome ==
  IF InField("target").v \in PreIds
    THEN /\ caught \in {NoError, SendError}
         /\ Len(sent) >= 1
         /\ sent[1].to = SocketOf(InField("target").v)
         /\ OutField(1, "method") = InField("method")
         /\ "result" \notin DOMAIN Out(1)
         /\ "error" \notin DOMAIN Out(1)
         /\ (HasId => OutField(1, "id")
                        = Obj([requestId |-> InField("id"),
                               clientId |-> Str(SenderId)]))
    ELSE /\ caught = NotFoundText(InField("target").v)
         /\ \A i \in 1..Len(sent) : sent[i].to = ev.ws
ResponseOutcome ==
  IF InField("id").o.clientId.v \in PreIds
    THEN /\ caught \in {NoError, SendError}
         /\ Len(sent) >= 1
         /\ sent[1].to = SocketOf(InField("id").o.clientId.v)
         /\ "method" \notin DOMAIN Out(1)
         /\ OutField(1, "id") = InField("id").o.requestId
    ELSE /\ caught = NotFoundText(InField("id").o.clientId.v)
         /\ \A i \in 1..Len(sent) : sent[i].to = ev.ws
InvalidOutcome ==
  /\ caught \in {"Error: Invalid message, did not match the protocol",
                 "TypeError: Cannot read property 'requestId' of null"}
  /\ (caught # "Error: Invalid message, did not match the protocol"
        => InField("id") = Null)
  /\ Len(sent) = (IF HasId THEN 1 ELSE 0)
  /\ \A i \in 1..Len(sent) : sent[i].to = ev.ws /\ "error" \in DOMAIN Out(i)

C14_FirstShapeRoutes ==
  Validated
  => /\ uncaught = NoError
     /\ IF ShapeBroadcast THEN BroadcastOutcome
        ELSE IF ShapeRequest
          THEN IF InField("target") = Str("server")
                 THEN ServerRequestOutcome ELSE PeerRequestOutcome
        ELSE IF ShapeResponse THEN ResponseOutcome
        ELSE InvalidOutcome

(* A message that has method and target and also a response's id and a     *)
(* result, sent by client#1 to client#2 while client#0, the identity in    *)
(* its id, is registered: it goes to client#2 as a request.                *)
C14_Witness ==
  /\ Validated
  /\ ShapeRequest
  /\ ShapeResponse
  /\ InField("id").o.clientId = Str("client#0")
  /\ InField("target") = Str("client#2")
  /\ SenderId = "client#1"
  /\ Len(pre.clients) = 3
  /\ Len(sent) = 1
  /\ sent[1].ok
  /\ sent[1].to = 3
  /\ OutField(1, "method") = Str("m")


(***************************************************************************)
(* C15.  In a broadcast, from a connection or from the host, send is       *)
(* called once on every registered connection but the broadcaster's,       *)
(* whichever of these calls throw; each destination whose send throws gets *)
(* one error log entry naming it and nothing else is logged as an error;   *)
(* no failure is raised, so the broadcaster is sent nothing; the registry  *)
(* keeps every entry.                                                      *)
(***************************************************************************)
BroadcastEvent == (Validated /\ ShapeBroadcast) \/ ev.kind = "broadcast"
Destinations ==
  IF ev.kind = "broadcast" THEN PreSockets ELSE PreSockets \ {ev.ws}
BroadcastFailureLog(w) ==
  LogEntry("error",
           "Failed to send broadcast to client: '" \o accepted[w].id \o "'")
C15_BroadcastSurvivesFailures ==
  BroadcastEvent
  => /\ {sent[i].to : i \in 1..Len(sent)} = Destinations
     /\ Len(sent) = Cardinality(Destinations)
     /\ \A i \in 1..Len(sent) : sent[i].ok <=> sent[i].to \notin ev.fail
     /\ \A w \in Destinations \cap ev.fail :
          Cardinality({k \in 1..Len(logs) : logs[k] = BroadcastFailureLog(w)})
            = 1
     /\ Cardinality({k \in 1..Len(logs) : logs[k].level = "error"})
          = Cardinality(Destinations \cap ev.fail)
     /\ caught = NoError
     /\ uncaught = NoError
     /\ (ev.kind = "message" => \A i \in 1..Len(sent) : sent[i].to # ev.ws)
     /\ RegistryUnchanged

(* A connection broadcasts to two others; the send to the first throws and *)
(* the second is still sent its copy.                                      *)
C15_Witness ==
  /\ Validated
  /\ ShapeBroadcast
  /\ ev.ws \in PreSockets
  /\ Len(pre.clients) = 3
  /\ Len(sent) = 2
  /\ ~sent[1].ok
  /\ sent[2].ok
  /\ logs = <<BroadcastFailureLog(sent[1].to)>>
  /\ Len(clients) = 3

(* The host broadcasts to three connections and every send throws. *)
C15_WitnessHost ==
  /\ ev.kind = "broadcast"
  /\ Len(pre.clients) = 3
  /\ Len(sent) = 3
  /\ \A i \in 1..3 : ~sent[i].ok
  /\ Len(logs) = 3
  /\ Len(clients) = 3


(***************************************************************************)
(* C16.  Closed is terminal.  In every step: a socket whose close or error *)
(* event has been handled stays so; after the step it has no registry      *)
(* entry, under its socket or under its identity, and no onmessage         *)
(* handler; a frame that arrives on it runs no handler, so nothing is      *)
(* parsed, sent or logged for it and the registry stays as it is; and no   *)
(* connection accepted later is given its identity.                        *)
(***************************************************************************)
C16_ClosedIsTerminal ==
  [][/\ ClosedSockets \subseteq ClosedSockets'
     /\ \A w \in ClosedSockets' :
          /\ w \notin RegisteredSockets'
          /\ \A i \in 1..Len(clients') : clients'[i].id # accepted'[w].id
          /\ w \notin onmessage'
     /\ \A w \in ClosedSockets :
          /\ ~(ev'.kind = "message" /\ ev'.ws = w)
          /\ (ev'.kind = "unhandled" /\ ev'.ws = w
              => /\ sent' = <<>>
                 /\ logs' = <<>>
                 /\ caught' = NoError
                 /\ uncaught' = NoError
                 /\ clients' = clients
                 /\ onmessage' = onmessage
                 /\ nextClientId' = nextClientId)
          /\ (ev'.kind = "connection" /\ ev'.registered
              => ev'.clientId # accepted[w].id)]_vars

(* A frame holding a well-formed broadcast arrives on a socket that was    *)
(* closed, while two other connections are registered: nothing is sent.    *)
C16_Witness ==
  /\ ev.kind = "unhandled"
  /\ ev.ws \in ClosedSockets
  /\ ev.frame.data.text = "json"
  /\ isBroadcast(parseMessage(ev.frame.data, ev.frame.binary).message)
  /\ Len(clients) = 2
  /\ sent = <<>>
  /\ logs = <<>>

(* A connection is accepted after another was closed. *)
C16_WitnessReconnect ==
  /\ ev.kind = "connection"
  /\ ev.registered
  /\ ClosedSockets # {}
  /\ Len(clients) = 2


(***************************************************************************)
(* C17.  A response whose id.clientId has no registry entry fails with the *)
(* identity-not-found error: send is called once, on the responder's       *)
(* socket, with {version, error, id} where error says the identity was not *)
(* found and id is the whole id of the response as it came; no other       *)
(* connection is sent anything and the registry is as before.              *)
(***************************************************************************)
C17_UnresolvedResponse ==
  UnresolvedResponse
  => /\ caught = NotFoundText(InField("id").o.clientId.v)
     /\ uncaught = NoError
     /\ Len(sent) = 1
     /\ sent[1].to = ev.ws
     /\ Out(1) = [version |-> Num(2),
                  error |-> Str(NotFoundText(InField("id").o.clientId.v)),
                  id |-> InField("id")]
     /\ RegistryUnchanged

(* The requester named in the id has disconnected; another connection is   *)
(* registered beside the responder and gets nothing.                       *)
C17_Witness ==
  /\ UnresolvedResponse
  /\ \E w \in ClosedSockets : accepted[w].id = InField("id").o.clientId.v
  /\ InField("id").o.requestId = Str("r1")
  /\ Len(pre.clients) = 2
  /\ Len(sent) = 1
  /\ sent[1].ok
  /\ sent[1].to = ev.ws


(***************************************************************************)
(* C18 as claimed.  Every validated message that matches none of the       *)
(* Broadcast, Request and Response shapes, with or without an id, produces *)
(* a log entry.                                                            *)
(***************************************************************************)
C18_EveryInvalidLogged ==
  InvalidShape => Len(logs) >= 1

(***************************************************************************)
(* C18 as amended.  A validated message that matches none of the shapes is *)
(* never dropped silently.  Without an id it produces one error log entry  *)
(* and nothing is sent.  With an id it produces one error response, sent   *)
(* to its sender with that id, and a log entry only when that send throws. *)
(***************************************************************************)
C18_InvalidNeverSilent ==
  InvalidShape
  => /\ caught # NoError
     /\ uncaught = NoError
     /\ (~HasId =>
           /\ sent = <<>>
           /\ logs = <<LogEntry("error", "Handling message from " \o SenderId
                                         \o " failed with:")>>)
     /\ (HasId =>
           /\ Len(sent) = 1
           /\ sent[1].to = ev.ws
           /\ Out(1) = [version |-> Num(2), error |-> Str(caught),
                        id |-> InField("id")]
           /\ logs = IF sent[1].ok THEN <<>>
                     ELSE <<LogEntry("error", "Failed to reply to "
                                              \o SenderId \o " with error:")>>)

(* A message with an id and no other field but the version is answered     *)
(* with an error response and nothing is logged.                           *)
C18_Witness ==
  /\ InvalidShape
  /\ HasId
  /\ InField("id") = Str("r1")
  /\ Len(sent) = 1
  /\ sent[1].ok
  /\ logs = <<>>

(* A message without id that matches no shape is logged. *)
C18_WitnessNoId ==
  /\ InvalidShape
  /\ ~HasId
  /\ sent = <<>>
  /\ Len(logs) = 1


(***************************************************************************)
(* C19 as claimed.  A request from C to a registered identity T that is    *)
(* not 'server' is sent to T, with the request's method and params and the *)
(* id {requestId: the request's id, clientId: C's identity}; it is the     *)
(* only message sent unless its send throws.                               *)
(***************************************************************************)
ResolvedRequest ==
  /\ RoutedAsRequest
  /\ InField("target") # Str("server")
  /\ InField("target").v \in PreIds
C19_AlwaysIdentified ==
  ResolvedRequest
  => /\ Len(sent) >= 1
     /\ sent[1].to = SocketOf(InField("target").v)
     /\ OutField(1, "method") = InField("method")
     /\ OutField(1, "params") = InField("params")
     /\ OutField(1, "id")
          = Obj([requestId |-> InField("id"), clientId |-> Str(SenderId)])
     /\ (sent[1].ok => Len(sent) = 1)

(***************************************************************************)
(* C19 as amended.  A request from C to a registered identity T that is    *)
(* not 'server' is sent to T as {version, method, params, id}: method and  *)
(* params are the request's; when the request has an id, id is             *)
(* {requestId: that id, clientId: C's identity}, whatever the request's id *)
(* holds; when the request has no id, the message has no id.  It is the    *)
(* only message sent unless its send throws; then C is sent an error       *)
(* response if the request has an id, and else the failure is logged.      *)
(***************************************************************************)
C19_RequestForwarded ==
  ResolvedRequest
  => /\ Len(sent) >= 1
     /\ sent[1].to = SocketOf(InField("target").v)
     /\ DOMAIN Out(1) \subseteq {"version", "method", "params", "id"}
     /\ OutField(1, "version") = Num(2)
     /\ OutField(1, "method") = InField("method")
     /\ OutField(1, "params") = InField("params")
     /\ IF HasId
          THEN OutField(1, "id")
                 = Obj([requestId |-> InField("id"), clientId |-> Str(SenderId)])
          ELSE "id" \notin DOMAIN Out(1)
     /\ (sent[1].ok => Len(sent) = 1 /\ logs = <<>> /\ caught = NoError)
     /\ (~sent[1].ok /\ HasId
         => /\ Len(sent) = 2
            /\ sent[2].to = ev.ws
            /\ Out(2) = [version |-> Num(2), error |-> Str(SendError),
                         id |-> InField("id")])
     /\ (~sent[1].ok /\ ~HasId => Len(sent) = 1 /\ Len(logs) = 1)
     /\ uncaught = NoError
     /\ RegistryUnchanged

(* A request without id and with params reaches its target without id,     *)
(* while a third connection is registered.                                 *)
C19_Witness ==
  /\ ResolvedRequest
  /\ ~HasId
  /\ InField("params") # Undefined
  /\ Len(pre.clients) = 3
  /\ sent[1].to # ev.ws
  /\ Len(sent) = 1
  /\ sent[1].ok
  /\ DOMAIN Out(1) = {"version", "method", "params"}

(* client#1 sends a request whose id names client#0: the id forwarded      *)
(* names client#1 and holds the request's id as requestId.                 *)
C19_WitnessOwnIdentity ==
  /\ ResolvedRequest
  /\ SenderId = "client#1"
  /\ InField("id").t = "object"
  /\ InField("id").o.clientId = Str("client#0")
  /\ Len(sent) = 1
  /\ sent[1].ok
  /\ OutField(1, "id").o.clientId = Str("client#1")
  /\ OutField(1, "id").o.requestId = InField("id")


(***************************************************************************)
(* C20.  No send after close.  Whatever the relay calls send on, in any    *)
(* handler run, is the socket of a registry entry at that moment, and is   *)
(* no socket whose close or error event has been handled; a close or error *)
(* handler itself sends nothing.                                           *)
(***************************************************************************)
C20_NoSendAfterClose ==
  /\ \A i \in 1..Len(sent) :
       /\ sent[i].to \in PreSockets
       /\ sent[i].to \in RegisteredSockets
       /\ sent[i].to \notin ClosedSockets
  /\ (ev.kind \in {"close", "error", "connection", "unhandled"} => sent = <<>>)

(* After one of three connections was closed, a broadcast from another     *)
(* reaches the third only.                                                 *)
C20_Witness ==
  /\ Validated
  /\ ShapeBroadcast
  /\ Len(accepted) = 3
  /\ Cardinality(ClosedSockets) = 1
  /\ Len(sent) = 1
  /\ sent[1].ok
  /\ sent[1].to \notin ClosedSockets \cup {ev.ws}

(* A response naming a requester that has disconnected: only the responder *)
(* is sent anything.                                                       *)
C20_WitnessResponse ==
  /\ UnresolvedResponse
  /\ \E w \in ClosedSockets : accepted[w].id = InField("id").o.clientId.v
  /\ Len(sent) = 1
  /\ sent[1].to = ev.ws
  /\ ~sent[1].ok

====
